---- MODULE Spec2Model ----
(***************************************************************************)
(* Model of the recipes_website scraper:                                   *)
(*   scrapers/tesco.py   Scraper (set_active_site, get_html) and           *)
(*                       TescoScraper.scrape_tesco                         *)
(*   core/_data_prep.py  match_urls, get_max_page_number                   *)
(*                                                                         *)
(* Strings are sequences of tokens.  A token is one character class or one *)
(* of the literal separators the code splits on (the euro sign, written    *)
(* "EUR", "do", "Clubcard", "page="), so that split, strip and re.search   *)
(* act on them as they do on the characters of a Python string.            *)
(***************************************************************************)
EXTENDS Integers, Sequences, FiniteSets, TLC

VARIABLES
    \* ---- Scraper instance (tesco.py 19-26)
    active_site,        \* name of the active site configuration, or None
    browser,            \* self.browser: None (0) or the handle of a session
    live,               \* the render sessions that are open (created, not quit)
    created,            \* number of render sessions created so far
    \* ---- the call in progress / last call
    call,               \* [op, site]: the last method called and its site argument
    pc,                 \* "idle" | "running" | "returned" | "raised"
    error,              \* the exception the last call raised, or "none"
    fetch,              \* how the last get_html ended: "none" | "ok" | "raised"
    \* ---- scrape_tesco's parameters and locals (tesco.py 120-199)
    num_pages, max_retries, keep_browser_open,
    ci,                 \* index into links of the category being scraped
    page, attempt, success,
    names, current_prices, regular_prices, discounts, validity_dates,
    df,                 \* the table returned
    log,                \* history: one entry per fetch attempt of the run
    \* ---- inputs and results of the pure functions
    product, row,                       \* one listing fragment and its row
    urls, pattern, matching_urls,       \* match_urls
    pagination_items, max_page,         \* get_max_page_number
    soup, item_info,                    \* one product-detail page and scrape_item_info's result
    applied                             \* whether the function has been applied

vars == << active_site, browser, live, created, call, pc, error, fetch,
           num_pages, max_retries, keep_browser_open, ci, page, attempt, success,
           names, current_prices, regular_prices, discounts, validity_dates,
           df, log, product, row, urls, pattern, matching_urls,
           pagination_items, max_page, soup, item_info, applied >>

scraperVars == << active_site, browser, live, created, call, pc, error, fetch,
                  num_pages, max_retries, keep_browser_open, ci, page, attempt,
                  success, names, current_prices, regular_prices, discounts,
                  validity_dates, df, log >>

extractVars == << product, row >>

matchVars == << urls, pattern, matching_urls >>

pagesVars == << pagination_items, max_page >>

itemVars == << soup, item_info >>

----------------------------------------------------------------------------
\* Bounds of the model

\* largest num_pages a caller passes
MaxPages == 2

\* largest max_retries a caller passes
MaxRetries == 3

\* most <li> fragments in one product list
MaxProducts == 2

\* most rows a run collects before the pages offered to it run dry
MaxRows == 2

\* longest text of a node of a listing fragment, in tokens
MaxTextLen == 2

\* longest candidate link, in tokens
MaxUrlLen == 2

\* most candidate links handed to match_urls
MaxUrls == 3

\* longest href of a pagination anchor, in tokens
MaxHrefLen == 2

\* most anchors inside one pagination <li>
MaxAnchors == 1

\* most pagination <li> items
MaxItems == 3

----------------------------------------------------------------------------
\* Python strings

\* all sequences over S of length at most n
RECURSIVE SeqsUpTo(_, _)
SeqsUpTo(S, n) ==
    IF n = 0 THEN { <<>> }
    ELSE LET shorter == SeqsUpTo(S, n - 1)
         IN  shorter \cup { Append(s, e) : s \in { t \in shorter : Len(t) = n - 1 }, e \in S }

\* the sentinel "-"
Dash == << "-" >>

\* sep in s
Contains(s, sep) == \E i \in 1..Len(s) : s[i] = sep

\* s.split(sep)[0]: what precedes the first sep, or all of s
SplitFirst(s, sep) ==
    IF Contains(s, sep)
    THEN LET i == CHOOSE k \in 1..Len(s) : s[k] = sep /\ \A j \in 1..(k - 1) : s[j] # sep
         IN  SubSeq(s, 1, i - 1)
    ELSE s

\* s.split(sep)[-1]: what follows the last sep, or all of s
SplitLast(s, sep) ==
    IF Contains(s, sep)
    THEN LET i == CHOOSE k \in 1..Len(s) : s[k] = sep /\ \A j \in (k + 1)..Len(s) : s[j] # sep
         IN  SubSeq(s, i + 1, Len(s))
    ELSE s

\* s.lstrip()
RECURSIVE LStrip(_)
LStrip(s) == IF s # <<>> /\ Head(s) = " " THEN LStrip(Tail(s)) ELSE s

\* s.rstrip()
RECURSIVE RStrip(_)
RStrip(s) == IF s # <<>> /\ s[Len(s)] = " " THEN RStrip(SubSeq(s, 1, Len(s) - 1)) ELSE s

\* s.strip()
Strip(s) == RStrip(LStrip(s))

----------------------------------------------------------------------------
\* Configuration and inputs of scrape_tesco

None == "None"

\* config/site_config.json as loaded by Scraper.__init__
SitesConfig ==
    [ tesco |-> [ main_http |-> "https://tesco/",
                  links     |-> << "fresh-food", "bakery" >>,
                  suffix    |-> "all?page=" ] ]

\* the site names a caller passes to set_active_site: the configured ones and one that is not
SiteNames == DOMAIN SitesConfig \cup { "unknown" }

\* a node looked up with product.find(...): absent (None), or present with its text
AbsentNode == [ present |-> FALSE, text |-> <<>> ]

PresentNode(t) == [ present |-> TRUE, text |-> t ]

\* the result of extracting one field: its value, or an exception
Value(v) == [ raised |-> FALSE, value |-> v ]

Raised == [ raised |-> TRUE, value |-> <<>> ]

\* tesco.py 147-148
NameField(name) ==
    IF name.present THEN Value(name.text) ELSE Value(Dash)

\* a variant of the current-price rule without its guard: get_text() on None
CurrentPriceFieldUnguarded(current_price) ==
    IF current_price.present
    THEN Value(Strip(SplitFirst(current_price.text, "EUR")))
    ELSE Raised

\* tesco.py 150-158
CurrentPriceField(current_price) ==
    IF current_price.present
    THEN Value(Strip(SplitFirst(current_price.text, "EUR")))
    ELSE Value(Dash)

\* tesco.py 160-168
RegularPriceField(regular_price) ==
    IF regular_price.present
    THEN Value(Strip(SplitFirst(regular_price.text, "EUR")))
    ELSE Value(Dash)

\* tesco.py 170-181, 184
DiscountField(discount_text) ==
    IF discount_text.present
    THEN IF Contains(discount_text.text, "Clubcard")
         THEN Value(Strip(SplitFirst(SplitLast(discount_text.text, "Clubcard"), "EUR")))
         ELSE Value(Dash)
    ELSE Value(Dash)

\* tesco.py 170-176, 182, 185
ValidityField(discount_text) ==
    IF discount_text.present
    THEN IF Contains(discount_text.text, "do")
         THEN Value(Strip(SplitLast(discount_text.text, "do")))
         ELSE Value(Dash)
    ELSE Value(Dash)

\* the five fields of one <li> fragment, in the order the loop body computes them
ProductFields(p) ==
    [ name          |-> NameField(p.name),
      current_price |-> CurrentPriceField(p.current_price),
      regular_price |-> RegularPriceField(p.regular_price),
      discount      |-> DiscountField(p.discount_text),
      validity_date |-> ValidityField(p.discount_text) ]

\* whether the loop body raises on fragment p
ProductRaises(p) ==
    \E f \in DOMAIN ProductFields(p) : ProductFields(p)[f].raised

\* a variant of ProductRow whose else branch appends to discounts only
ProductRowForgetsValidity(p) ==
    [ names          |-> << ProductFields(p).name.value >>,
      current_prices |-> << ProductFields(p).current_price.value >>,
      regular_prices |-> << ProductFields(p).regular_price.value >>,
      discounts      |-> << ProductFields(p).discount.value >>,
      validity_dates |-> IF p.discount_text.present
                         THEN << ProductFields(p).validity_date.value >>
                         ELSE <<>> ]

\* what one pass of the loop body (tesco.py 145-185) appends to each list
ProductRow(p) ==
    [ names          |-> << ProductFields(p).name.value >>,
      current_prices |-> << ProductFields(p).current_price.value >>,
      regular_prices |-> << ProductFields(p).regular_price.value >>,
      discounts      |-> << ProductFields(p).discount.value >>,
      validity_dates |-> << ProductFields(p).validity_date.value >> ]

\* list after the loop over products has appended to it (col names the list)
RECURSIVE Extended(_, _, _)
Extended(list, products, col) ==
    IF products = <<>> THEN list
    ELSE Extended(list \o ProductRow(Head(products))[col], Tail(products), col)

\* the fragments the model feeds scrape_tesco: every combination of present and
\* absent nodes, each present node with one text that exercises its transform
SampleProducts ==
    { [ name          |-> IF n THEN PresentNode(<< "x" >>) ELSE AbsentNode,
        current_price |-> IF c THEN PresentNode(<< " ", "x", "EUR", "x" >>) ELSE AbsentNode,
        regular_price |-> IF r THEN PresentNode(<< "x", " ", "EUR" >>) ELSE AbsentNode,
        discount_text |-> IF d THEN PresentNode(<< "Clubcard", "x", "EUR", "do", " ", "x" >>)
                               ELSE AbsentNode ]
      : n \in BOOLEAN, c \in BOOLEAN, r \in BOOLEAN, d \in BOOLEAN }

\* smaller of two numbers
Min(a, b) == IF a <= b THEN a ELSE b

\* the product lists a page may hold, product_list[0].find_all("li", ...), of at most n items
ProductLists(n) == SeqsUpTo(SampleProducts, Min(MaxProducts, n))

\* pd.DataFrame of tesco.py 189-198 over the lists as they stand
Table(site) ==
    [ Polozka   |-> names,
      NovaCena  |-> current_prices,
      StaraCena |-> regular_prices,
      Zlava     |-> discounts,
      Platnost  |-> validity_dates,
      Obchod    |-> [ i \in 1..Len(names) |-> SitesConfig[site].main_http ] ]

\* pd.DataFrame raises ValueError unless all columns have one length
TableOk ==
    /\ Len(current_prices) = Len(names)
    /\ Len(regular_prices) = Len(names)
    /\ Len(discounts) = Len(names)
    /\ Len(validity_dates) = Len(names)

EmptyTable ==
    [ Polozka |-> <<>>, NovaCena |-> <<>>, StaraCena |-> <<>>,
      Zlava |-> <<>>, Platnost |-> <<>>, Obchod |-> <<>> ]

----------------------------------------------------------------------------
\* scrape_item_info: the fields of one product-detail page (tesco.py 201-296)

\* a container node and the node nested in it
AbsentContainer == [ present |-> FALSE, nested |-> AbsentNode ]

Container(n) == [ present |-> TRUE, nested |-> n ]

\* the offer-text node, its text, and the dates node that follows it
AbsentOffer == [ present |-> FALSE, text |-> <<>>, dates |-> AbsentNode ]

Offer(t, d) == [ present |-> TRUE, text |-> t, dates |-> d ]

\* an <a> of the breadcrumb item, with or without an href attribute
AbsentAnchor == [ present |-> FALSE, has_href |-> FALSE, href |-> <<>> ]

AnchorNoHref == [ present |-> TRUE, has_href |-> FALSE, href |-> <<>> ]

AnchorHref(h) == [ present |-> TRUE, has_href |-> TRUE, href |-> h ]

\* the breadcrumb <li> and its first <a>
AbsentListItem == [ present |-> FALSE, anchor |-> AbsentAnchor ]

ListItem(a) == [ present |-> TRUE, anchor |-> a ]

\* element.get_text(strip=True) if element else "-" (tesco.py 212-221, 255-266)
GuardedText(element) ==
    IF element.present THEN Value(Strip(element.text)) ELSE Value(Dash)

\* tesco.py 224-227, 230
ItemDiscount(discount_element) ==
    IF discount_element.present
    THEN IF Contains(Strip(discount_element.text), "bezna cena")
         THEN Value(Strip(SplitFirst(Strip(discount_element.text), "bezna cena")))
         ELSE Value(Dash)
    ELSE Value(Dash)

\* tesco.py 224-225, 228, 231: get_text on the result of find_next, unguarded
ItemValidity(discount_element) ==
    IF discount_element.present
    THEN IF discount_element.dates.present
         THEN Value(Strip(discount_element.dates.text))
         ELSE Raised
    ELSE Value(Dash)

\* tesco.py 234-238, 241-245, 248-252: get_text on the result of find, unguarded
NestedText(element) ==
    IF element.present
    THEN IF element.nested.present
         THEN Value(Strip(element.nested.text))
         ELSE Raised
    ELSE Value(Dash)

\* tesco.py 269-276: anchor['href'] if anchor else "-"
CategoryLink(list_item) ==
    IF list_item.present
    THEN IF list_item.anchor.present
         THEN IF list_item.anchor.has_href
              THEN Value(list_item.anchor.href)
              ELSE Raised
         ELSE Value(Dash)
    ELSE Value(Dash)

\* the eleven columns of the table scrape_item_info builds (tesco.py 282-294)
ItemColumns ==
    { "ProductName", "CurrentPrice", "RegularPrice", "Discount", "ValidityDate",
      "Description", "Ingredients", "Allergens", "ManufacturerInfo",
      "DistributorInfo", "CategoryLink" }

\* what the body of the try block computes for each column (tesco.py 211-276)
ItemFields(s) ==
    [ ProductName |-> GuardedText(s.name),
      CurrentPrice |-> GuardedText(s.current_price),
      RegularPrice |-> GuardedText(s.regular_price),
      Discount |-> ItemDiscount(s.offer),
      ValidityDate |-> ItemValidity(s.offer),
      Description |-> NestedText(s.description),
      Ingredients |-> NestedText(s.ingredients),
      Allergens |-> NestedText(s.allergens),
      ManufacturerInfo |-> GuardedText(s.manufacturer),
      DistributorInfo |-> GuardedText(s.distributor),
      CategoryLink |-> CategoryLink(s.list_item) ]

\* the exception the body raises on the page, in statement order: AttributeError
\* from get_text on None (228, 236, 243, 250), then KeyError from anchor['href'] (273)
ItemError(s) ==
    IF \/ ItemFields(s).ValidityDate.raised \/ ItemFields(s).Description.raised
       \/ ItemFields(s).Ingredients.raised \/ ItemFields(s).Allergens.raised
    THEN "AttributeError"
    ELSE IF ItemFields(s).CategoryLink.raised THEN "KeyError" ELSE "none"

\* the one-row table of a page whose body ran to its end (tesco.py 282-296)
ItemTable(s) == << [ c \in ItemColumns |-> ItemFields(s)[c].value ] >>

\* the table of empty lists, built after a caught WebDriverException (278-294)
EmptyItemTable == <<>>

\* the result of scrape_item_info given how the fetch ended: the table returned,
\* or the exception that leaves the function; only WebDriverException is caught
ScrapeItemInfoResult(s, fetched) ==
    IF fetched = "WebDriverException"
    THEN [ error |-> "none", df |-> EmptyItemTable ]
    ELSE IF fetched # "ok"
    THEN [ error |-> fetched, df |-> EmptyItemTable ]
    ELSE IF ItemError(s) # "none"
    THEN [ error |-> ItemError(s), df |-> EmptyItemTable ]
    ELSE [ error |-> "none", df |-> ItemTable(s) ]

\* a page without any of the nodes, and the state before any call
NoSoup ==
    [ name |-> AbsentNode, current_price |-> AbsentNode, regular_price |-> AbsentNode,
      offer |-> AbsentOffer, description |-> AbsentContainer,
      ingredients |-> AbsentContainer, allergens |-> AbsentContainer,
      manufacturer |-> AbsentNode, distributor |-> AbsentNode,
      list_item |-> AbsentListItem ]

NoItemInfo == [ error |-> "none", df |-> EmptyItemTable ]

----------------------------------------------------------------------------
\* Scraper.get_html (tesco.py 53-72)

NoBrowser == 0

\* what the environment does to one get_html call
FetchOutcomes == { "session_fails", "load_fails", "loads" }

\* get_html under outcome o: the session fields afterwards and how the call ends.
\*   62-63  a session is created only while self.browser is None
\*   65     browser.get raises on a session that was quit, or when the load fails
\*   69-70  the session is quit only after a load that succeeded
GetHtml(o, keep_open) ==
    IF browser = NoBrowser /\ o = "session_fails"
    THEN [ browser |-> browser, live |-> live, created |-> created,
           result |-> "WebDriverException" ]
    ELSE LET b  == IF browser = NoBrowser THEN created + 1 ELSE browser
             c  == IF browser = NoBrowser THEN created + 1 ELSE created
             l1 == IF browser = NoBrowser THEN live \cup { b } ELSE live
         IN  IF b \notin l1
             THEN [ browser |-> b, live |-> l1, created |-> c, result |-> "SessionError" ]
             ELSE IF o # "loads"
             THEN [ browser |-> b, live |-> l1, created |-> c,
                    result |-> "WebDriverException" ]
             ELSE [ browser |-> b, created |-> c, result |-> "ok",
                    live |-> IF keep_open THEN l1 ELSE l1 \ { b } ]

\* the session fields after a get_html call that ended as g
SessionAfter(g) ==
    /\ browser' = g.browser
    /\ live' = g.live
    /\ created' = g.created
    /\ fetch' = IF g.result = "ok" THEN "ok" ELSE "raised"

----------------------------------------------------------------------------
\* Calls on the Scraper

\* the locals of scrape_tesco before a call
RunReset ==
    /\ num_pages' = 0 /\ max_retries' = 0
    /\ ci' = 0 /\ page' = 0 /\ attempt' = 0 /\ success' = FALSE
    /\ names' = <<>> /\ current_prices' = <<>> /\ regular_prices' = <<>>
    /\ discounts' = <<>> /\ validity_dates' = <<>>
    /\ df' = EmptyTable /\ log' = <<>>

\* a variant of set_active_site that reads the configuration with .get()
SetActiveSiteGet ==
    \E site_name \in SiteNames :
        /\ pc = "idle"
        /\ call' = [ op |-> "set_active_site", site |-> site_name ]
        /\ active_site' = IF site_name \in DOMAIN SitesConfig THEN site_name ELSE None
        /\ pc' = "returned" /\ error' = "none"
        /\ RunReset /\ keep_browser_open' = FALSE
        /\ UNCHANGED << browser, live, created, fetch >>

\* Scraper.set_active_site (tesco.py 28-35)
SetActiveSite ==
    \E site_name \in SiteNames :
        /\ pc = "idle"
        /\ call' = [ op |-> "set_active_site", site |-> site_name ]
        /\ IF site_name \in DOMAIN SitesConfig
           THEN active_site' = site_name /\ pc' = "returned" /\ error' = "none"
           ELSE active_site' = active_site /\ pc' = "raised" /\ error' = "ValueError"
        /\ RunReset /\ keep_browser_open' = FALSE
        /\ UNCHANGED << browser, live, created, fetch >>

\* a direct call of get_html / fetch_all_soup (tesco.py 53-85, main.py 25)
GetHtmlCall ==
    \E o \in FetchOutcomes, keep_open \in BOOLEAN :
        LET g == GetHtml(o, keep_open) IN
        /\ pc = "idle"
        /\ call' = [ op |-> "get_html", site |-> None ]
        /\ SessionAfter(g)
        /\ pc' = IF g.result = "ok" THEN "returned" ELSE "raised"
        /\ error' = IF g.result = "ok" THEN "none" ELSE g.result
        /\ RunReset /\ keep_browser_open' = keep_open
        /\ UNCHANGED active_site

\* the category list of the active site
Links == SitesConfig[active_site].links

\* scrape_tesco up to its first loop test (tesco.py 120-135)
ScrapeTescoCall ==
    \E np \in 0..MaxPages, mr \in 0..MaxRetries, keep_open \in BOOLEAN :
        /\ pc = "idle"
        /\ call' = [ op |-> "scrape_tesco", site |-> active_site ]
        /\ names' = <<>> /\ current_prices' = <<>> /\ regular_prices' = <<>>
        /\ discounts' = <<>> /\ validity_dates' = <<>>
        /\ log' = <<>> /\ df' = EmptyTable
        /\ attempt' = 0 /\ success' = FALSE
        /\ IF active_site = None
           THEN /\ pc' = "raised" /\ error' = "ValueError"
                /\ num_pages' = 0 /\ max_retries' = 0 /\ keep_browser_open' = FALSE
                /\ ci' = 0 /\ page' = 0
           ELSE /\ num_pages' = np /\ max_retries' = mr /\ keep_browser_open' = keep_open
                /\ error' = "none"
                /\ IF np >= 1 /\ Len(Links) >= 1
                   THEN pc' = "running" /\ ci' = 1 /\ page' = 1
                   ELSE pc' = "returned" /\ ci' = 0 /\ page' = 0
        /\ UNCHANGED << active_site, browser, live, created, fetch >>

\* the test of the retry loop (tesco.py 137)
LoopCond == attempt < max_retries /\ ~success

\* the next iteration of the page loop, of the category loop, or the return
\* (tesco.py 132-135, 189-199), for a step that leaves the lists alone
NextIteration ==
    IF page < num_pages
    THEN /\ page' = page + 1 /\ ci' = ci
         /\ attempt' = 0 /\ success' = FALSE
         /\ UNCHANGED << pc, error, df >>
    ELSE IF ci < Len(Links)
    THEN /\ ci' = ci + 1 /\ page' = 1
         /\ attempt' = 0 /\ success' = FALSE
         /\ UNCHANGED << pc, error, df >>
    ELSE /\ UNCHANGED << ci, page, attempt, success >>
         /\ IF TableOk
            THEN pc' = "returned" /\ error' = "none" /\ df' = Table(active_site)
            ELSE pc' = "raised" /\ error' = "ValueError" /\ df' = df

\* one entry of the history of fetch attempts
LogEntry(res, n) ==
    [ category |-> Links[ci], page |-> page, result |-> res, products |-> n ]

\* a fetch that raises: nothing in scrape_tesco catches it (tesco.py 138)
FetchRaises ==
    \E o \in FetchOutcomes :
        LET g == GetHtml(o, keep_browser_open) IN
        /\ pc = "running" /\ LoopCond
        /\ g.result # "ok"
        /\ SessionAfter(g)
        /\ pc' = "raised" /\ error' = g.result
        /\ log' = Append(log, LogEntry("raised", 0))
        /\ UNCHANGED << active_site, call, num_pages, max_retries, keep_browser_open,
                        ci, page, attempt, success, names, current_prices,
                        regular_prices, discounts, validity_dates, df >>

\* a variant of the empty-page branch that goes round the retry loop again
FetchNoProductsContinue ==
    LET g == GetHtml("loads", keep_browser_open) IN
    /\ pc = "running" /\ LoopCond
    /\ g.result = "ok"
    /\ SessionAfter(g)
    /\ log' = Append(log, LogEntry("no_products", 0))
    /\ UNCHANGED << active_site, call, num_pages, max_retries, keep_browser_open,
                    ci, page, attempt, success, pc, error, df,
                    names, current_prices, regular_prices, discounts, validity_dates >>

\* a fetched page without a product list: break out of the retry loop
\* (tesco.py 138-143), which is the next iteration of the page loop
FetchNoProducts ==
    LET g == GetHtml("loads", keep_browser_open) IN
    /\ pc = "running" /\ LoopCond
    /\ g.result = "ok"
    /\ SessionAfter(g)
    /\ log' = Append(log, LogEntry("no_products", 0))
    /\ NextIteration
    /\ UNCHANGED << active_site, call, num_pages, max_retries, keep_browser_open,
                    names, current_prices, regular_prices, discounts, validity_dates >>

\* a fetched page with a product list: one row per <li> (tesco.py 138-187)
FetchProducts ==
    \E products \in ProductLists(MaxRows - Len(names)) :
        LET g == GetHtml("loads", keep_browser_open) IN
        /\ pc = "running" /\ LoopCond
        /\ g.result = "ok"
        /\ SessionAfter(g)
        /\ log' = Append(log, LogEntry("products", Len(products)))
        /\ names' = Extended(names, products, "names")
        /\ current_prices' = Extended(current_prices, products, "current_prices")
        /\ regular_prices' = Extended(regular_prices, products, "regular_prices")
        /\ discounts' = Extended(discounts, products, "discounts")
        /\ validity_dates' = Extended(validity_dates, products, "validity_dates")
        /\ IF \E i \in 1..Len(products) : ProductRaises(products[i])
           THEN pc' = "raised" /\ error' = "AttributeError" /\ success' = success
           ELSE success' = TRUE /\ UNCHANGED << pc, error >>
        /\ UNCHANGED << active_site, call, num_pages, max_retries, keep_browser_open,
                        ci, page, attempt, df >>

\* the retry loop's test fails: on to the next page (tesco.py 137, 133)
WhileExit ==
    /\ pc = "running" /\ ~LoopCond
    /\ NextIteration
    /\ UNCHANGED << active_site, browser, live, created, fetch, call, log,
                    num_pages, max_retries, keep_browser_open,
                    names, current_prices, regular_prices, discounts, validity_dates >>

\* the caller takes the result or the exception: the frame of the call is gone
Return ==
    /\ pc \in { "returned", "raised" }
    /\ pc' = "idle"
    /\ call' = [ op |-> "none", site |-> None ]
    /\ error' = "none" /\ fetch' = "none"
    /\ RunReset /\ keep_browser_open' = FALSE
    /\ UNCHANGED << active_site, browser, live, created >>

ScraperInit ==
    /\ active_site = None /\ browser = NoBrowser /\ live = {} /\ created = 0
    /\ call = [ op |-> "none", site |-> None ]
    /\ pc = "idle" /\ error = "none" /\ fetch = "none"
    /\ num_pages = 0 /\ max_retries = 0 /\ keep_browser_open = FALSE
    /\ ci = 0 /\ page = 0 /\ attempt = 0 /\ success = FALSE
    /\ names = <<>> /\ current_prices = <<>> /\ regular_prices = <<>>
    /\ discounts = <<>> /\ validity_dates = <<>>
    /\ df = EmptyTable /\ log = <<>>

\* a fragment without any of the nodes
NoProduct ==
    [ name |-> AbsentNode, current_price |-> AbsentNode,
      regular_price |-> AbsentNode, discount_text |-> AbsentNode ]

FunctionsIdle ==
    /\ product = NoProduct
    /\ row = <<>>
    /\ urls = <<>> /\ pattern = <<>> /\ matching_urls = <<>>
    /\ pagination_items = <<>> /\ max_page = 0
    /\ soup = NoSoup /\ item_info = NoItemInfo
    /\ applied = FALSE

Init == ScraperInit /\ FunctionsIdle

Next ==
    \/ SetActiveSite /\ UNCHANGED << extractVars, matchVars, pagesVars, itemVars, applied >>
    \/ GetHtmlCall /\ UNCHANGED << extractVars, matchVars, pagesVars, itemVars, applied >>
    \/ ScrapeTescoCall /\ UNCHANGED << extractVars, matchVars, pagesVars, itemVars, applied >>
    \/ FetchRaises /\ UNCHANGED << extractVars, matchVars, pagesVars, itemVars, applied >>
    \/ FetchNoProducts /\ UNCHANGED << extractVars, matchVars, pagesVars, itemVars, applied >>
    \/ FetchProducts /\ UNCHANGED << extractVars, matchVars, pagesVars, itemVars, applied >>
    \/ WhileExit /\ UNCHANGED << extractVars, matchVars, pagesVars, itemVars, applied >>
    \/ Return /\ UNCHANGED << extractVars, matchVars, pagesVars, itemVars, applied >>

Spec == Init /\ [][Next]_vars

----------------------------------------------------------------------------
\* Properties of scrape_tesco, set_active_site and get_html

\* number of fetch attempts the run has made of page p of category c
Tries(l, c, p) ==
    Cardinality({ i \in 1..Len(l) : l[i].category = c /\ l[i].page = p })

\* the category after c in declared order, or None after the last
NextCategory(c) ==
    LET i == CHOOSE k \in 1..Len(Links) : Links[k] = c
    IN  IF i < Len(Links) THEN Links[i + 1] ELSE None

\* number of <li> fragments the run has seen
RECURSIVE ProductsSeen(_)
ProductsSeen(l) ==
    IF l = <<>> THEN 0 ELSE l[Len(l)].products + ProductsSeen(SubSeq(l, 1, Len(l) - 1))

\* C1: a page whose fetch fails on fewer than max_retries attempts is fetched again:
\* scrape_tesco gives a page up over a failed load only once the page has had
\* max_retries fetch attempts (two failures and a success make three attempts).
C1_FailedFetchIsRetried ==
    (call.op = "scrape_tesco" /\ pc = "raised" /\ error = "WebDriverException")
        => Tries(log, Links[ci], page) >= max_retries

\* C2: a fetch that raises on some (category, page) is never raised to the caller of
\* scrape_tesco; the run goes on with the remaining pages and categories.
C2_FetchFailureNotRaised ==
    (call.op = "scrape_tesco" /\ log # <<>> /\ log[Len(log)].result = "raised")
        => pc = "running"

\* the run has fetched no page without a product list more than once
EmptyPagesFetchedOnce(l) ==
    \A i \in 1..Len(l) :
        l[i].result = "no_products" => Tries(l, l[i].category, l[i].page) = 1

\* C3: a page that is fetched and holds no product list is attempted exactly once,
\* whatever max_retries >= 1 is: it is never fetched again, and the step that fetched
\* it appends no row.
C3_EmptyPageFetchedOnce ==
    [][ /\ EmptyPagesFetchedOnce(log')
        /\ (Len(log') = Len(log) + 1 /\ log'[Len(log')].result = "no_products")
             => /\ max_retries >= 1
                /\ names' = names /\ current_prices' = current_prices
                /\ regular_prices' = regular_prices /\ discounts' = discounts
                /\ validity_dates' = validity_dates
                /\ ~(pc' = "running" /\ ci' = ci /\ page' = page) ]_vars

C3_Witness ==
    /\ pc = "returned" /\ max_retries = MaxRetries
    /\ \E i \in 1..Len(log) : log[i].result = "no_products"
    /\ \E i \in 1..Len(log) : log[i].result = "products"

\* C4: once page p of a category has no product list, no later page of that category
\* is fetched: the fetch that follows, if any, is page 1 of the next category.
C4_NoFetchPastEmptyPage ==
    \A i \in 1..(Len(log) - 1) :
        (log[i].result = "no_products" /\ log[i + 1].result # "raised")
            => /\ log[i + 1].page = 1
               /\ log[i + 1].category = NextCategory(log[i].category)

\* C6: the five lists have one entry per fragment seen, so that building the table
\* never fails, and the table returned has exactly the six columns, each of that
\* length, the source column holding the site's base URL in every row.
C6_FixedFieldSet ==
    /\ Len(names) = ProductsSeen(log)
    /\ Len(current_prices) = ProductsSeen(log)
    /\ Len(regular_prices) = ProductsSeen(log)
    /\ Len(discounts) = ProductsSeen(log)
    /\ Len(validity_dates) = ProductsSeen(log)
    /\ (call.op = "scrape_tesco" /\ pc = "raised" /\ log # <<>>) => error # "ValueError"
    /\ (call.op = "scrape_tesco" /\ pc = "returned")
         => /\ DOMAIN df = { "Polozka", "NovaCena", "StaraCena", "Zlava", "Platnost", "Obchod" }
            /\ \A col \in DOMAIN df : Len(df[col]) = ProductsSeen(log)
            /\ \A i \in 1..Len(df.Obchod) : df.Obchod[i] = SitesConfig[active_site].main_http

C6_Witness ==
    /\ call.op = "scrape_tesco" /\ pc = "returned"
    /\ Len(log) >= 2 /\ Len(df.Polozka) = 2
    /\ df.Polozka[1] = Dash /\ df.Zlava[1] # Dash
    /\ df.Polozka[2] # Dash /\ df.Platnost[2] = Dash

\* C9: set_active_site with a name that is not configured raises at once and leaves
\* the active site as it was; scrape_tesco without an active site raises before any
\* page is fetched and before any row exists.
C9_ConfigurationErrorIsFatal ==
    [][ /\ (call.op = "none" /\ call'.op = "set_active_site"
              /\ call'.site \notin DOMAIN SitesConfig)
             => (pc' = "raised" /\ error' = "ValueError" /\ active_site' = active_site)
        /\ (call.op = "none" /\ call'.op = "scrape_tesco" /\ active_site = None)
             => /\ pc' = "raised" /\ error' = "ValueError"
                /\ log' = <<>> /\ names' = <<>> /\ df' = EmptyTable
                /\ fetch' = "none" /\ created' = created /\ live' = live ]_vars

C9_Witness ==
    /\ call.op = "set_active_site" /\ call.site \notin DOMAIN SitesConfig
    /\ pc = "raised" /\ error = "ValueError"
    /\ active_site \in DOMAIN SitesConfig

\* C10: when a get_html call has ended, by returning or by raising, no render
\* session is open.
C10_SessionReleased ==
    fetch # "none" => live = {}

----------------------------------------------------------------------------
\* The loop body of scrape_tesco on one fragment, over all small texts

\* texts of a name node, of a price node, and of a discount / validity terms node
NameTexts == SeqsUpTo({ "x" }, MaxTextLen)

PriceTexts == SeqsUpTo({ "x", " ", "EUR" }, MaxTextLen)

TermsTexts == SeqsUpTo({ "x", " ", "EUR", "do", "Clubcard" }, MaxTextLen)

Nodes(texts) == { AbsentNode } \cup { PresentNode(t) : t \in texts }

Products ==
    [ name : Nodes(NameTexts), current_price : Nodes(PriceTexts),
      regular_price : Nodes(PriceTexts), discount_text : Nodes(TermsTexts) ]

\* one pass of the loop body (tesco.py 145-185) on the fragment drawn
ExtractProduct ==
    /\ ~applied
    /\ applied' = TRUE
    /\ row' = ProductFields(product)
    /\ UNCHANGED << product, scraperVars, matchVars, pagesVars, itemVars >>

InitExtract ==
    /\ ScraperInit
    /\ product \in Products /\ row = <<>>
    /\ urls = <<>> /\ pattern = <<>> /\ matching_urls = <<>>
    /\ pagination_items = <<>> /\ max_page = 0
    /\ soup = NoSoup /\ item_info = NoItemInfo
    /\ applied = FALSE

NextExtract == ExtractProduct

SpecExtract == InitExtract /\ [][NextExtract]_vars

\* the node each field is read from
NodeOf(f) ==
    CASE f = "name" -> "name"
      [] f = "current_price" -> "current_price"
      [] f = "regular_price" -> "regular_price"
      [] f = "discount" -> "discount_text"
      [] f = "validity_date" -> "discount_text"

\* fragment p with every node but n taken out
OnlyNode(p, n) == [ m \in DOMAIN p |-> IF m = n THEN p[m] ELSE AbsentNode ]

\* C5: a fragment without any of the nodes yields "-" in all five fields and raises
\* nothing; for every subset of present nodes, the field of each absent node is "-"
\* and every field is what it is when the other nodes are absent.
C5_AbsentNodesGiveDash ==
    applied =>
        /\ \A f \in DOMAIN row : ~row[f].raised
        /\ \A f \in DOMAIN row : ~product[NodeOf(f)].present => row[f].value = Dash
        /\ \A f \in DOMAIN row : row[f] = ProductFields(OnlyNode(product, NodeOf(f)))[f]
        /\ DOMAIN row = { "name", "current_price", "regular_price", "discount", "validity_date" }

C5_Witness ==
    /\ applied /\ product = NoProduct
    /\ \A f \in DOMAIN row : row[f] = Value(Dash)

----------------------------------------------------------------------------
\* core/_data_prep.py: match_urls

\* a candidate link: a str with its text, or an entry that is no str (None, a number)
StrEntry(t) == [ kind |-> "str", text |-> t ]

NonStrEntries == { [ kind |-> "none", text |-> <<>> ], [ kind |-> "int", text |-> <<>> ] }

UrlEntries == { StrEntry(t) : t \in SeqsUpTo({ "/shop/", "x" }, MaxUrlLen) } \cup NonStrEntries

\* the patterns drawn: literal path prefixes, as main.py 20 passes
Patterns == { <<>>, << "/shop/" >>, << "/shop/", "x" >> }

\* re.match(pattern, text) for a literal pattern: the pattern matches at the start
ReMatch(pat, text) ==
    Len(pat) <= Len(text) /\ SubSeq(text, 1, Len(pat)) = pat

\* a variant of the filter without isinstance: re.match raises TypeError on a non-str
UrlFilterNoTypeCheck(url, pat) ==
    IF url.kind = "str"
    THEN [ raised |-> FALSE, keep |-> ReMatch(pat, url.text) ]
    ELSE [ raised |-> TRUE, keep |-> FALSE ]

\* isinstance(url, str) and re.match(pattern, url)   (_data_prep.py 9)
UrlFilter(url, pat) ==
    IF url.kind = "str"
    THEN [ raised |-> FALSE, keep |-> ReMatch(pat, url.text) ]
    ELSE [ raised |-> FALSE, keep |-> FALSE ]

\* the list comprehension of _data_prep.py 9
RECURSIVE Comprehension(_, _)
Comprehension(us, pat) ==
    IF us = <<>> THEN <<>>
    ELSE (IF UrlFilter(Head(us), pat).keep THEN << Head(us) >> ELSE <<>>)
             \o Comprehension(Tail(us), pat)

\* match_urls (_data_prep.py 6-10)
MatchUrls(us, pat) ==
    IF \E i \in 1..Len(us) : UrlFilter(us[i], pat).raised
    THEN [ raised |-> TRUE, value |-> <<>> ]
    ELSE [ raised |-> FALSE, value |-> Comprehension(us, pat) ]

ApplyMatchUrls ==
    /\ ~applied
    /\ applied' = TRUE
    /\ matching_urls' = MatchUrls(urls, pattern)
    /\ UNCHANGED << urls, pattern, scraperVars, extractVars, pagesVars, itemVars >>

InitMatch ==
    /\ ScraperInit
    /\ product = NoProduct /\ row = <<>>
    /\ urls \in SeqsUpTo(UrlEntries, MaxUrls) /\ pattern \in Patterns
    /\ matching_urls = <<>>
    /\ pagination_items = <<>> /\ max_page = 0
    /\ soup = NoSoup /\ item_info = NoItemInfo
    /\ applied = FALSE

NextMatch == ApplyMatchUrls

SpecMatch == InitMatch /\ [][NextMatch]_vars

\* the positions of urls that hold a str starting with the pattern
MatchingPositions ==
    { i \in 1..Len(urls) :
        /\ urls[i].kind = "str"
        /\ Len(urls[i].text) >= Len(pattern)
        /\ \A k \in 1..Len(pattern) : urls[i].text[k] = pattern[k] }

\* the k-th of them, in input order
KthMatching(k) ==
    CHOOSE i \in MatchingPositions : Cardinality({ j \in MatchingPositions : j <= i }) = k

\* C7: match_urls never raises over an entry that is no str, and returns exactly the
\* str entries that match the pattern, each once, in input order.
C7_MatchingSubsequence ==
    applied =>
        /\ ~matching_urls.raised
        /\ Len(matching_urls.value) = Cardinality(MatchingPositions)
        /\ \A k \in 1..Len(matching_urls.value) : matching_urls.value[k] = urls[KthMatching(k)]

C7_Witness ==
    /\ applied /\ Len(urls) = 3 /\ pattern = << "/shop/" >>
    /\ urls[1] = StrEntry(<< "/shop/", "x" >>)
    /\ urls[2].kind = "none"
    /\ urls[3] = StrEntry(<< "/shop/" >>)
    /\ matching_urls = [ raised |-> FALSE, value |-> << urls[1], urls[3] >> ]

----------------------------------------------------------------------------
\* core/_data_prep.py: get_max_page_number

Digits == { "2", "3", "5" }

DigitValue(d) == CASE d = "2" -> 2 [] d = "3" -> 3 [] d = "5" -> 5

\* an <a> tag: with an href attribute or without one
Anchor(h) == [ has_href |-> TRUE, href |-> h ]

Anchors ==
    { Anchor(h) : h \in SeqsUpTo(Digits \cup { "page=" }, MaxHrefLen) }
        \cup { [ has_href |-> FALSE, href |-> <<>> ] }

\* a pagination <li>: the <a> tags inside it, in document order
PaginationItems == SeqsUpTo(Anchors, MaxAnchors)

\* the places where page=(\d+) matches in h
TokenPositions(h) ==
    { i \in 1..(Len(h) - 1) : h[i] = "page=" /\ h[i + 1] \in Digits }

\* re.compile(r"page=(\d+)").search(h) finds a match
HasPageToken(h) == TokenPositions(h) # {}

\* int() of the digits h[i..j]
RECURSIVE IntOf(_, _, _)
IntOf(h, i, j) ==
    IF j < i THEN 0 ELSE 10 * IntOf(h, i, j - 1) + DigitValue(h[j])

\* int(re.search(r"page=(\d+)", h).group(1)): the leftmost match, its longest digit run
PageToken(h) ==
    LET i == CHOOSE k \in TokenPositions(h) : \A m \in TokenPositions(h) : k <= m
        j == CHOOSE e \in (i + 1)..Len(h) :
                 /\ \A m \in (i + 1)..e : h[m] \in Digits
                 /\ (e = Len(h) \/ h[e + 1] \notin Digits)
    IN  IntOf(h, i + 1, j)

\* item.find('a', href=re.compile(...)): the positions of the anchors that qualify
Qualifying(item) ==
    { i \in 1..Len(item) : item[i].has_href /\ HasPageToken(item[i].href) }

\* page_numbers after the loop of _data_prep.py 21-29
RECURSIVE PageNumbers(_)
PageNumbers(items) ==
    IF items = <<>> THEN <<>>
    ELSE LET item == items[Len(items)]
             rest == PageNumbers(SubSeq(items, 1, Len(items) - 1))
         IN  IF Qualifying(item) # {}
             THEN LET a_tag == item[CHOOSE i \in Qualifying(item) :
                                        \A m \in Qualifying(item) : i <= m]
                  IN  Append(rest, PageToken(a_tag.href))
             ELSE rest

\* max() of a non-empty list
MaxOf(s) == CHOOSE x \in { s[i] : i \in 1..Len(s) } : \A i \in 1..Len(s) : s[i] <= x

\* a variant that returns the last page number found
GetMaxPageNumberLast(items) ==
    IF PageNumbers(items) # <<>>
    THEN PageNumbers(items)[Len(PageNumbers(items))]
    ELSE 1

\* get_max_page_number (_data_prep.py 13-32)
GetMaxPageNumber(items) ==
    IF PageNumbers(items) # <<>> THEN MaxOf(PageNumbers(items)) ELSE 1

ApplyGetMaxPageNumber ==
    /\ ~applied
    /\ applied' = TRUE
    /\ max_page' = GetMaxPageNumber(pagination_items)
    /\ UNCHANGED << pagination_items, scraperVars, extractVars, matchVars, itemVars >>

InitPages ==
    /\ ScraperInit
    /\ product = NoProduct /\ row = <<>>
    /\ urls = <<>> /\ pattern = <<>> /\ matching_urls = <<>>
    /\ pagination_items \in SeqsUpTo(PaginationItems, MaxItems) /\ max_page = 0
    /\ soup = NoSoup /\ item_info = NoItemInfo
    /\ applied = FALSE

NextPages == ApplyGetMaxPageNumber

SpecPages == InitPages /\ [][NextPages]_vars

\* the page numbers of the controls: of each <li>, the number its target reference
\* (the href of its first anchor that carries a page= token) embeds
ControlNumbers ==
    { PageToken(pagination_items[i][CHOOSE a \in Qualifying(pagination_items[i]) :
                                        \A m \in Qualifying(pagination_items[i]) : a <= m].href)
      : i \in { k \in 1..Len(pagination_items) : Qualifying(pagination_items[k]) # {} } }

\* C8: get_max_page_number returns the greatest page number the controls embed, and 1
\* when no control embeds one (the empty collection included); the order of the
\* controls does not matter.
C8_MaxPageNumber ==
    applied =>
        /\ ControlNumbers = {} => max_page = 1
        /\ ControlNumbers # {} =>
              /\ max_page \in ControlNumbers
              /\ \A n \in ControlNumbers : n <= max_page

C8_Witness ==
    /\ applied /\ Len(pagination_items) = 3
    /\ ControlNumbers = { 2, 3, 5 }
    /\ pagination_items[2] = << Anchor(<< "page=", "5" >>) >>
    /\ pagination_items[3] = << Anchor(<< "page=", "3" >>) >>
    /\ max_page = 5

----------------------------------------------------------------------------
\* scrape_item_info on one product-detail page, over all combinations of present
\* and absent nodes

\* the text of a node that carries no rule of its own
ItemText == << "x", " " >>

\* texts of the offer-text node
OfferTexts == SeqsUpTo({ "x", " ", "bezna cena" }, MaxTextLen)

SimpleNodes == { AbsentNode, PresentNode(ItemText) }

Containers == { AbsentContainer } \cup { Container(n) : n \in SimpleNodes }

Offers == { AbsentOffer } \cup { Offer(t, d) : t \in OfferTexts, d \in SimpleNodes }

ListItems ==
    { AbsentListItem, ListItem(AbsentAnchor), ListItem(AnchorNoHref),
      ListItem(AnchorHref(<< "x" >>)) }

Soups ==
    [ name : SimpleNodes, current_price : SimpleNodes, regular_price : SimpleNodes,
      offer : Offers, description : Containers, ingredients : Containers,
      allergens : Containers, manufacturer : SimpleNodes, distributor : SimpleNodes,
      list_item : ListItems ]

\* one call of scrape_item_info on a fresh Scraper (tesco.py 201-296)
ScrapeItemInfo ==
    \E o \in FetchOutcomes, keep_open \in BOOLEAN :
        LET g == GetHtml(o, keep_open)
            r == ScrapeItemInfoResult(soup, g.result) IN
        /\ ~applied /\ pc = "idle"
        /\ applied' = TRUE
        /\ call' = [ op |-> "scrape_item_info", site |-> None ]
        /\ SessionAfter(g)
        /\ item_info' = r
        /\ pc' = IF r.error = "none" THEN "returned" ELSE "raised"
        /\ error' = r.error
        /\ RunReset /\ keep_browser_open' = keep_open
        /\ UNCHANGED << active_site, soup, extractVars, matchVars, pagesVars >>

InitItem ==
    /\ ScraperInit
    /\ product = NoProduct /\ row = <<>>
    /\ urls = <<>> /\ pattern = <<>> /\ matching_urls = <<>>
    /\ pagination_items = <<>> /\ max_page = 0
    /\ soup \in Soups /\ item_info = NoItemInfo
    /\ applied = FALSE

NextItem == ScrapeItemInfo

SpecItem == InitItem /\ [][NextItem]_vars

\* the columns whose node is absent from the page: the node itself, or for a
\* column read from a nested node, the container or the node nested in it
AbsentColumns(s) ==
    { c \in ItemColumns :
        CASE c = "ProductName" -> ~s.name.present
          [] c = "CurrentPrice" -> ~s.current_price.present
          [] c = "RegularPrice" -> ~s.regular_price.present
          [] c = "Discount" -> ~s.offer.present
          [] c = "ValidityDate" -> ~s.offer.present \/ ~s.offer.dates.present
          [] c = "Description" -> ~s.description.present \/ ~s.description.nested.present
          [] c = "Ingredients" -> ~s.ingredients.present \/ ~s.ingredients.nested.present
          [] c = "Allergens" -> ~s.allergens.present \/ ~s.allergens.nested.present
          [] c = "ManufacturerInfo" -> ~s.manufacturer.present
          [] c = "DistributorInfo" -> ~s.distributor.present
          [] c = "CategoryLink" -> ~s.list_item.present \/ ~s.list_item.anchor.present }

\* C11: scrape_item_info never raises on absent input: on every page whose fetch
\* succeeds, whatever nodes are present or absent (a container without its nested
\* node included), it returns exactly one row, and every absent field of it is "-"
C11_ItemInfoNeverRaises ==
    (applied /\ fetch = "ok") =>
        /\ item_info.error = "none"
        /\ Len(item_info.df) = 1
        /\ \A c \in AbsentColumns(soup) : item_info.df[1][c] = Dash

----------------------------------------------------------------------------
\* The session a page load is issued to

\* C12: over any sequence of get_html calls on one Scraper, with any mix of
\* keep_browser_open values, a page load is only ever issued to a session that is
\* open: a session quit by an earlier call is never used again (a new one is
\* created instead), so no call, and no fetch of a scrape_tesco run over several
\* pages, ends with a load attempted on a quit session.
C12_LoadOnlyOnOpenSession ==
    error # "SessionError"

====
